---- MODULE Spec2Model ----
(***************************************************************************)
(* Stock monitoring and notification pipeline of p-bandai-monitor.         *)
(*                                                                         *)
(*   app.py        check_watchlist_job, scrape_premium_bandai,             *)
(*                 send_line_notification, the registration endpoints      *)
(*   pb_worker.py  main, get_tasks, scrape_pb, send_line_push              *)
(*                                                                         *)
(* The two pollers are separate programs; `prog` says which one a          *)
(* behaviour runs.  The blocking calls of a sweep (page fetch, store       *)
(* update, push) are the steps of the model.  Texts that are Japanese in   *)
(* the source are written in ASCII here.                                   *)
(***************************************************************************)
EXTENDS Integers, Sequences, FiniteSets, TLC

VARIABLES
    prog,           \* "app" (check_watchlist_job), "pb" (pb_worker.main), "scrape"
    store,          \* watchlist documents: item id -> document (a record of fields)
    settings,       \* owner -> settings document holding the channel handle
    nextId,         \* next auto-generated watchlist document id
    pc,             \* position of the poller
    sweep,          \* number of sweeps started; also the store's clock
    outcome,        \* how the last sweep ended: "none", "running", "completed", "raised"
    user_refs,      \* check_watchlist_job: owners still to visit
    line_user_id,   \* check_watchlist_job: handle of the owner being visited
    items,          \* check_watchlist_job: item snapshots still to process
    tasks,          \* pb_worker.main: tasks still to process
    scraped,        \* result of the fetch of the item in flight
    delivery,       \* what the push of the last step did, "none" if it made none
    hist,           \* per item, what each sweep did with it (observation only)
    keep,           \* whether hist keeps the entries of earlier sweeps
    pace,           \* sleeps since the last outbound fetch (observation only)
    db,             \* the Firestore client of the process: "none" or "client"
    overlap,        \* sweeps the interval timer started while a sweep was running
    trigger,        \* what the interval timer did when it last found a sweep running
    MOCK_ITEM_IN_STOCK, \* app.py: the flag of the built-in test item
    toggles,        \* calls of the toggle endpoint so far (observation only)
    request,        \* registration check: the request handed to the endpoint
    monitoring,     \* daily goods: the collection daily_goods_discontinued_monitor
    purchase_list,  \* daily goods: the collection daily_goods_purchase_list
    runs,           \* daily goods: per run of the monitor, its call of save_to_firestore
    html,           \* scraper check: the response handed to the scrapers
    result          \* scraper check: what the scrapers returned

vars == <<prog, store, settings, nextId, pc, sweep, outcome, user_refs,
          line_user_id, items, tasks, scraped, delivery, hist, keep, pace, db, overlap,
          trigger, MOCK_ITEM_IN_STOCK, toggles, request, monitoring, purchase_list,
          runs, html, result>>

pipeVars == <<store, settings, nextId, pc, sweep, outcome, user_refs,
              line_user_id, items, tasks, scraped, delivery, hist, keep, pace>>

\* The process around the pipeline: its store client, its timer, its test
\* item and the registration request being served.
hostVars == <<db, overlap, trigger, MOCK_ITEM_IN_STOCK, toggles, request>>

\* The collections and the runs of daily_goods_monitor_with_auction.py.
goodsVars == <<monitoring, purchase_list, runs>>

(***************************************************************************)
(* Bounds of the model.                                                    *)
(***************************************************************************)
MaxSweeps == 2      \* sweeps per behaviour
FlapSweeps == 3     \* sweeps per behaviour of the single-item specification
MaxItems == 2       \* watchlist documents ever created
MaxDeletes == 1     \* watchlist documents the owners delete
MaxLen == 3         \* tokens of a page body in the scraper check

(***************************************************************************)
(* Texts and tokens.                                                       *)
(***************************************************************************)
None == [none |-> TRUE]         \* Python None as a scrape result
Raised == [exception |-> TRUE]  \* a call that ends in an exception instead of a value
NoneStr == "None"               \* Python None where a string is expected
IN_STOCK == "zaiko-ari"         \* the text for "in stock"
OUT_OF_STOCK == "zaiko-nashi"   \* the text for "out of stock"
UNKNOWN_TITLE == "fumei-na-shouhin"
UNKNOWN_PRICE == "---"

\* A page body is a sequence of the markers the regular expressions look for.
TITLE == "<title>NAME |"
PRICE == "price: '9999'"
IMAGE == "<meta property=og:image content=IMG>"
STOCKM == "orderstock_list = {"
PAIR_O == "\"id\":\"O\""        \* an entry whose value is the availability glyph
PAIR_X == "\"id\":\"X\""        \* an entry with another value
MAXM == "ordermax_list = {"
QTY == "\"id\":3"
CLOSE == "}"

Tokens == {TITLE, PRICE, IMAGE, STOCKM, PAIR_O, PAIR_X, MAXM, QTY, CLOSE}

Users == {"u1", "u2"}
UserList == <<"u1", "u2">>
ItemIds == 1..MaxItems

\* dict.get(key, default)
Get(doc, f, d) == IF f \in DOMAIN doc THEN doc[f] ELSE d

\* (mutant) every value passes for true
TruthyAlways(s) == TRUE

\* Python truthiness of a string-or-None
Truthy(s) == s # NoneStr /\ s # ""

(***************************************************************************)
(* The HTTP response of requests.get: it raised (network error, timeout),  *)
(* or it carries a status and a body.                                      *)
(***************************************************************************)
HTTP_OK == 200
Statuses == {HTTP_OK, 503}

Response(raised, status, body) == [raised |-> raised, status |-> status, body |-> body]
NetworkError == Response(TRUE, 0, <<>>)

\* Whether the fetch itself succeeded: a response arrived and its status is 200.
FetchSucceeded(resp) == ~resp.raised /\ resp.status = HTTP_OK

\* Index of the first token of s at or after position from that is in S; 0 if none.
FirstIndex(s, from, S) ==
    LET hits == {i \in DOMAIN s : i >= from /\ s[i] \in S}
    IN  IF hits = {} THEN 0 ELSE CHOOSE i \in hits : \A j \in hits : i <= j

\* re.search(r'orderstock_list = \{.*?"(.*?)":"(.*?)"', html, re.DOTALL):
\* the leftmost marker, then lazily anything (DOTALL: braces and newlines
\* too) up to the first "key":"value" entry.  The position of that entry,
\* 0 when there is no match.
\* (mutant) the entry is looked for anywhere on the page, marker or not
StockSearchAnywhere(body) == FirstIndex(body, 1, {PAIR_O, PAIR_X})

StockSearch(body) ==
    LET m == FirstIndex(body, 1, {STOCKM})
    IN  IF m = 0 THEN 0 ELSE FirstIndex(body, m + 1, {PAIR_O, PAIR_X})

\* stock.group(2) == "O"
StockGlyphIsAvailable(body) ==
    StockSearch(body) # 0 /\ body[StockSearch(body)] = PAIR_O

\* re.search(r'ordermax_list = \{.*?"(.*?)":(\d+)', html, re.DOTALL)
MaxSearch(body) ==
    LET m == FirstIndex(body, 1, {MAXM})
    IN  IF m = 0 THEN 0 ELSE FirstIndex(body, m + 1, {QTY})

\* (mutant) all or nothing: no snapshot when the title is missing
SnapshotOrNothing(body, url) ==
    IF FirstIndex(body, 1, {TITLE}) = 0 THEN None
    ELSE [title |-> "NAME",
          price |-> IF FirstIndex(body, 1, {PRICE}) # 0 THEN "9999yen" ELSE UNKNOWN_PRICE,
          inStock |-> StockGlyphIsAvailable(body),
          statusText |-> IF StockGlyphIsAvailable(body) THEN IN_STOCK ELSE OUT_OF_STOCK,
          imageUrl |-> IF FirstIndex(body, 1, {IMAGE}) # 0 THEN "IMG" ELSE NoneStr,
          url |-> url]

\* the dictionary scrape_premium_bandai builds from a page
Snapshot(body, url) ==
    LET available == StockGlyphIsAvailable(body)
    IN  [title |-> IF FirstIndex(body, 1, {TITLE}) # 0 THEN "NAME" ELSE UNKNOWN_TITLE,
         price |-> IF FirstIndex(body, 1, {PRICE}) # 0 THEN "9999yen" ELSE UNKNOWN_PRICE,
         inStock |-> available,
         statusText |-> IF available THEN IN_STOCK ELSE OUT_OF_STOCK,
         imageUrl |-> IF FirstIndex(body, 1, {IMAGE}) # 0 THEN "IMG" ELSE NoneStr,
         url |-> url]

\* (mutant) the status of the response is not looked at
ScrapeIgnoringStatus(resp, url) ==
    IF resp.raised THEN None ELSE Snapshot(resp.body, url)

\* (mutant) no try/except: an exception of the fetch leaves the function
ScrapeUncaught(resp, url) ==
    IF resp.raised THEN Raised
    ELSE IF resp.status # HTTP_OK THEN None
    ELSE Snapshot(resp.body, url)

\* scrape_premium_bandai(url), given what requests.get did
ScrapePremiumBandai(resp, url) ==
    IF resp.raised THEN None                    \* except Exception: return None
    ELSE IF resp.status # HTTP_OK THEN None
    ELSE Snapshot(resp.body, url)

\* What the enrichment agent does with a request: the service cannot be
\* reached or a call raises; the run leaves no assistant message; the
\* assistant answers with plain text, with text whose braces are not JSON, or
\* with JSON.
AgentOutcomes == {"unreachable", "error", "no_message", "text", "bad_json", "json"}
AgentJson == [agent_answer |-> TRUE]

\* get_stock_status_via_agent(url): the result it returns (the thread id aside)
GetStockStatusViaAgent(resp, url, a) ==
    LET snapshot == ScrapePremiumBandai(resp, url)
    IN  IF snapshot = None THEN None                \* return None, None
        ELSE IF a \in {"unreachable", "error"} THEN Raised   \* no try/except
        ELSE IF a = "no_message" THEN snapshot
        ELSE IF a = "json" THEN AgentJson           \* json.loads(match.group())
        ELSE [agent_comment |-> "TEXT"] @@ snapshot

\* scrape_pb(url), given what requests.get did: (res, is_stock, qty)
ScrapePb(resp) ==
    IF resp.raised THEN [res |-> "Exception", is_stock |-> FALSE, qty |-> "0"]
    ELSE IF resp.status # HTTP_OK THEN [res |-> "Error", is_stock |-> FALSE, qty |-> "0"]
    ELSE [res |-> "Success",
          is_stock |-> StockGlyphIsAvailable(resp.body),
          qty |-> IF MaxSearch(resp.body) # 0 THEN "3" ELSE "0"]

\* (mutant) the text written does not follow the fetch
StatusTextSoldOut(is_stock, qty) ==
    <<OUT_OF_STOCK, "(", qty, ")">>

\* pb_worker: f"{'in stock' if is_stock else 'out of stock'}({qty})"
StatusText(is_stock, qty) ==
    <<IF is_stock THEN IN_STOCK ELSE OUT_OF_STOCK, "(", qty, ")">>

\* pb_worker: "in stock" in prev_status  (prev_status "" is the empty text)
Contains(text, piece) == \E i \in DOMAIN text : text[i] = piece

(***************************************************************************)
(* The store and the push API.                                             *)
(***************************************************************************)
URL == "https://p-bandai.jp/item/1"
LINE_TOKEN == "line-token"      \* LINE_CHANNEL_ACCESS_TOKEN of the environment
MY_ID == "Uadmin"               \* MY_LINE_USER_ID of the environment (pb_worker)

\* What a push can do: succeed, be refused by the API (LineBotApiError),
\* or fail below the API (connection error, timeout: another exception).
Deliveries == {"ok", "api_error", "net_error"}

\* The settings documents an owner can have: none, one without lineUserId,
\* one with the owner's handle.
HandleOf(uid) == IF uid = "u1" THEN "Lu1" ELSE "Lu2"
InitSettings ==
    { [u \in Users |-> [lineUserId |-> HandleOf(u)]],
      [u \in {"u2"} |-> [lineUserId |-> HandleOf(u)]],
      [u \in Users |-> IF u = "u1" THEN [lineUserId |-> HandleOf(u)]
                                   ELSE [updatedAt |-> 0]] }

\* Sequence of the elements of a set of numbers, ascending (document-id order).
RECURSIVE SortedSeq(_)
SortedSeq(S) ==
    IF S = {} THEN <<>>
    ELSE LET m == CHOOSE x \in S : \A y \in S : x <= y
         IN  <<m>> \o SortedSeq(S \ {m})

\* watchlist_ref.stream() of one owner, as (reference, data) snapshots
WatchlistStream(uid) ==
    LET ids == SortedSeq({i \in DOMAIN store : store[i].uid = uid})
    IN  [n \in DOMAIN ids |-> [ref |-> ids[n], data |-> store[ids[n]]]]

\* reference.update(fields): the named fields are replaced, the others kept
Update(doc, fields) == fields @@ doc

\* The pages a sweep can meet: in stock, sold out, and a page that has lost
\* its stock marker.
SweepPages ==
    { <<TITLE, PRICE, IMAGE, STOCKM, PAIR_O, CLOSE, MAXM, QTY, CLOSE>>,
      <<TITLE, PRICE, IMAGE, STOCKM, PAIR_X, CLOSE, MAXM, QTY, CLOSE>>,
      <<TITLE, PRICE>> }
Responses ==
    {NetworkError} \cup {Response(FALSE, st, b) : st \in Statuses, b \in SweepPages}

\* (mutant) the stock entry is written before the orderstock_list marker, where
\* the regular expression of scrape_premium_bandai does not find it
TestItemPageUnmatched(flag) ==
    <<TITLE, IMAGE, PRICE, IF flag THEN PAIR_O ELSE PAIR_X, STOCKM, CLOSE>>

\* test_item_page(): the page of the built-in test item, by the mock flag
TEST_URL == "http://localhost/test-item"
TestItemPage(flag) ==
    <<TITLE, IMAGE, PRICE, STOCKM, IF flag THEN PAIR_O ELSE PAIR_X, CLOSE>>

\* What requests.get(url) can bring: the test item is served by this process
\* from its flag, any other page is whatever the shop serves.
ResponsesFor(url) ==
    IF url = TEST_URL
    THEN {NetworkError, Response(FALSE, HTTP_OK, TestItemPage(MOCK_ITEM_IN_STOCK))}
    ELSE Responses

\* (mutant) set(fields, merge=True): a missing document is created
RefSetMerge(ref, fields) ==
    IF ref \in DOMAIN store
    THEN [found |-> TRUE, docs |-> [store EXCEPT ![ref] = Update(@, fields)]]
    ELSE [found |-> TRUE, docs |-> (ref :> fields) @@ store]

\* DocumentReference.update(fields) on the store: NotFound, and nothing
\* written, when the document does not exist
RefUpdate(ref, fields) ==
    IF ref \in DOMAIN store
    THEN [found |-> TRUE, docs |-> [store EXCEPT ![ref] = Update(@, fields)]]
    ELSE [found |-> FALSE, docs |-> store]

\* No registration request is being served.
NoRequest == [kind |-> "none"]

\* The process is up: store client created, timer idle, test item as defined.
HostReady ==
    /\ db = "client"
    /\ overlap = 0
    /\ trigger = "none"
    /\ MOCK_ITEM_IN_STOCK = FALSE
    /\ toggles = 0
    /\ request = NoRequest

\* No run of the daily-goods monitor, its collections empty.
GoodsIdle ==
    /\ monitoring = <<>>
    /\ purchase_list = <<>>
    /\ runs = <<>>

(***************************************************************************)
(* Pacing.  pb_worker sleeps random.randint(10, 20) seconds after every    *)
(* task and random.randint(300, 600) seconds after every sweep; the model  *)
(* draws the two ends of each range.  pace adds up the seconds slept since *)
(* the last fetch.                                                         *)
(***************************************************************************)
SLEEP_MIN == 10
SLEEP_MAX == 20
WAIT_MIN == 300
WAIT_MAX == 600

\* (mutant) the sleep after a task can be no sleep at all
ItemSleepsOrNone == {0, SLEEP_MAX}

ItemSleeps == {SLEEP_MIN, SLEEP_MAX}
SweepWaits == {WAIT_MIN, WAIT_MAX}

\* pace: whether a fetch was made at all, and the seconds slept since the last
NoFetchYet == [fetched |-> FALSE, slept |-> 0]
JustFetched == [fetched |-> TRUE, slept |-> 0]
Slept(d) == IF pace.fetched THEN [pace EXCEPT !.slept = @ + d] ELSE pace

(***************************************************************************)
(* Observation: hist[i] lists, sweep by sweep, what the poller did with    *)
(* item i.  It is written by the actions and read only by the properties.  *)
(***************************************************************************)
Entry(fetchOk, prev, cur) ==
    [sweep |-> sweep, fetchOk |-> fetchOk, prev |-> prev, cur |-> cur,
     wrote |-> "no", notified |-> "no", to |-> NoneStr, sent |-> "none"]

SweepLimit == IF keep THEN FlapSweeps ELSE MaxSweeps

NoHist == [i \in ItemIds |-> <<>>]
Record(i, e) == [hist EXCEPT ![i] = Append(@, e)]
Amend(i, f, v) == [hist EXCEPT ![i] = [@ EXCEPT ![Len(@)] = (f :> v) @@ @]]

(***************************************************************************)
(* check_watchlist_job (app.py)                                            *)
(***************************************************************************)
\* (mutant) the stored flag is compared with the status text, never equal to it
TransitionedAgainstText(prev_status, current_status) == TRUE

\* (mutant) only a change to in stock counts
TransitionedToStock(prev_status, current_status) == current_status /\ ~prev_status

\* if prev_status != current_status:
Transitioned(prev_status, current_status) == prev_status # current_status

\* (mutant) lastNotifiedStatus is left out of the update
TransitionFieldsUnmarked(snapshot, now) ==
    [inStock |-> snapshot.inStock,
     statusText |-> snapshot.statusText,
     lastChecked |-> now]

\* (mutant) statusText is left out of the update
TransitionFieldsWithoutText(snapshot, now) ==
    [inStock |-> snapshot.inStock,
     lastChecked |-> now,
     lastNotifiedStatus |-> snapshot.inStock]

\* (mutant) the update refreshes the time stamp only, the availability stays
TransitionFieldsStale(snapshot, now) == [lastChecked |-> now]

\* the fields of item_doc.reference.update({...})
TransitionFields(snapshot, now) ==
    [inStock |-> snapshot.inStock,
     statusText |-> snapshot.statusText,
     lastChecked |-> now,
     lastNotifiedStatus |-> snapshot.inStock]

\* send_line_notification(line_user_id, message) when the push does d:
\* "skipped" (returned early), "ok", "api_error" (caught and logged), or
\* "net_error" (not a LineBotApiError: leaves the function as an exception).
SendLineNotification(to, d) ==
    IF ~Truthy(LINE_TOKEN) \/ ~Truthy(to) THEN "skipped" ELSE d

\* The job ends on an exception: APScheduler logs it, the sweep is over.
JobRaises ==
    /\ pc' = "idle"
    /\ outcome' = "raised"
    /\ user_refs' = <<>>
    /\ items' = <<>>
    /\ scraped' = None

\* (mutant) the loop drops the last item of the list instead of the first
NextItemFromEnd ==
    /\ items' = SubSeq(items, 1, Len(items) - 1)
    /\ pc' = IF Len(items) = 1 THEN "owner" ELSE "fetch"
    /\ scraped' = None

\* for item_doc in items: go on with the next item, or back to the owner loop
NextItem ==
    /\ items' = Tail(items)
    /\ pc' = IF Tail(items) = <<>> THEN "owner" ELSE "fetch"
    /\ scraped' = None

AppStartSweep ==
    /\ prog = "app" /\ pc = "idle" /\ sweep < SweepLimit
    /\ UNCHANGED hostVars
    /\ UNCHANGED goodsVars
    /\ UNCHANGED pace
    /\ sweep' = sweep + 1
    /\ IF db = "none"          \* db.collection(...): AttributeError on None
       THEN user_refs' = <<>> /\ outcome' = "raised" /\ pc' = "idle"
       ELSE user_refs' = UserList /\ outcome' = "running" /\ pc' = "owner"
    /\ hist' = IF keep THEN hist ELSE NoHist
    /\ UNCHANGED <<prog, keep, store, settings, nextId, line_user_id, items, tasks,
                   scraped, html, result>>
    /\ delivery' = "none"

AppNextOwner ==
    /\ prog = "app" /\ pc = "owner" /\ user_refs # <<>>
    /\ UNCHANGED hostVars
    /\ UNCHANGED goodsVars
    /\ UNCHANGED pace
    /\ LET uid == Head(user_refs)
           exists == uid \in DOMAIN settings
           handle == IF exists THEN Get(settings[uid], "lineUserId", NoneStr) ELSE NoneStr
       IN  /\ user_refs' = Tail(user_refs)
           /\ IF ~exists \/ ~Truthy(handle)
              THEN UNCHANGED <<line_user_id, items, pc>>
              ELSE /\ line_user_id' = handle
                   /\ items' = WatchlistStream(uid)
                   /\ pc' = IF WatchlistStream(uid) = <<>> THEN "owner" ELSE "fetch"
    /\ UNCHANGED <<prog, keep, store, settings, nextId, sweep, outcome, tasks,
                   scraped, hist, html, result>>
    /\ delivery' = "none"

AppEndSweep ==
    /\ prog = "app" /\ pc = "owner" /\ user_refs = <<>>
    /\ UNCHANGED hostVars
    /\ UNCHANGED goodsVars
    /\ UNCHANGED pace
    /\ pc' = "idle"
    /\ outcome' = "completed"
    /\ UNCHANGED <<prog, keep, store, settings, nextId, sweep, user_refs, line_user_id,
                   items, tasks, scraped, hist, html, result>>
    /\ delivery' = "none"

AppFetch ==
    /\ prog = "app" /\ pc = "fetch"
    /\ UNCHANGED hostVars
    /\ UNCHANGED goodsVars
    /\ pace' = JustFetched
    /\ \E resp \in ResponsesFor(Get(Head(items).data, "url", NoneStr)) :
         LET item == Head(items).data
             snapshot == ScrapePremiumBandai(resp, Get(item, "url", NoneStr))
             prev_status == Get(item, "inStock", FALSE)
             ref == Head(items).ref
         IN  IF snapshot = Raised           \* no try/except around the call
             THEN /\ hist' = Record(ref, Entry(FetchSucceeded(resp), prev_status, FALSE))
                  /\ JobRaises
             ELSE IF snapshot = None        \* if not scraped: continue
             THEN /\ hist' = Record(ref, Entry(FetchSucceeded(resp), prev_status, FALSE))
                  /\ NextItem
                  /\ UNCHANGED <<outcome, user_refs>>
             ELSE /\ hist' = Record(ref, Entry(FetchSucceeded(resp), prev_status,
                                              snapshot.inStock))
                  /\ UNCHANGED <<outcome, user_refs>>
                  /\ IF Transitioned(prev_status, snapshot.inStock)
                     THEN /\ scraped' = snapshot
                          /\ pc' = "update"
                          /\ UNCHANGED items
                     ELSE NextItem
    /\ UNCHANGED <<prog, keep, store, settings, nextId, sweep,
                   line_user_id, tasks, html, result>>
    /\ delivery' = "none"

AppUpdate ==
    /\ prog = "app" /\ pc = "update"
    /\ UNCHANGED hostVars
    /\ UNCHANGED goodsVars
    /\ UNCHANGED pace
    /\ LET ref == Head(items).ref
           w == RefUpdate(ref, TransitionFields(scraped, sweep))
       IN  \E ok \in BOOLEAN :
             IF ok /\ w.found
             THEN /\ store' = w.docs
                  /\ hist' = Amend(ref, "wrote", "ok")
                  /\ pc' = "notify"
                  /\ UNCHANGED <<outcome, user_refs, items, scraped>>
             ELSE /\ hist' = Amend(ref, "wrote", "failed")
                  /\ JobRaises
                  /\ UNCHANGED store
    /\ UNCHANGED <<prog, keep, settings, nextId, sweep, line_user_id, tasks, html, result>>
    /\ delivery' = "none"

AppNotify ==
    /\ prog = "app" /\ pc = "notify"
    /\ UNCHANGED hostVars
    /\ UNCHANGED goodsVars
    /\ UNCHANGED pace
    /\ \E d \in Deliveries :
         LET ref == Head(items).ref
             sent == SendLineNotification(line_user_id, d)
         IN  /\ delivery' = sent
             /\ hist' = [Amend(ref, "notified", IF sent = "skipped" THEN sent ELSE "called")
                            EXCEPT ![ref] = [@ EXCEPT ![Len(@)].to = line_user_id,
                                                      ![Len(@)].sent = sent]]
             /\ IF sent = "net_error"
                THEN JobRaises
                ELSE NextItem /\ UNCHANGED <<outcome, user_refs>>
    /\ UNCHANGED <<prog, keep, store, settings, nextId, sweep, line_user_id, tasks,
                   html, result>>

(***************************************************************************)
(* pb_worker.py                                                            *)
(***************************************************************************)
\* send_line_push(to_user_id, message) when the push does d
SendLinePush(to, d) ==
    IF ~Truthy(to) \/ ~Truthy(LINE_TOKEN) THEN "skipped" ELSE d

\* (mutant) the stored status is not read: every task starts from ""
TasksOfForgetful(uid) ==
    LET line_id == IF uid \in DOMAIN settings
                   THEN Get(settings[uid], "lineUserId", NoneStr)
                   ELSE MY_ID
        watchlist == WatchlistStream(uid)
    IN  [n \in DOMAIN watchlist |->
            [ref |-> watchlist[n].ref,
             url |-> Get(watchlist[n].data, "url", NoneStr),
             line_id |-> line_id,
             prev_status |-> <<>>]]

\* the tasks get_tasks() appends for one user document.  Line 57 writes
\* settings.exists() where app.py reads the attribute line_ref.exists; it is
\* modelled as the existence test of the settings document.
TasksOf(uid) ==
    LET line_id == IF uid \in DOMAIN settings
                   THEN Get(settings[uid], "lineUserId", NoneStr)
                   ELSE MY_ID
        watchlist == WatchlistStream(uid)
    IN  [n \in DOMAIN watchlist |->
            [ref |-> watchlist[n].ref,
             url |-> Get(watchlist[n].data, "url", NoneStr),
             line_id |-> line_id,
             prev_status |-> Get(watchlist[n].data, "lastStatus", <<>>)]]

RECURSIVE GetTasksFrom(_)
GetTasksFrom(us) ==
    IF us = <<>> THEN <<>> ELSE TasksOf(Head(us)) \o GetTasksFrom(Tail(us))

\* get_tasks()
GetTasks == GetTasksFrom(UserList)

\* (mutant) any change of availability counts
RestockedOrSoldOut(is_stock, prev_status) == is_stock # Contains(prev_status, IN_STOCK)

\* if is_stock and "in stock" not in task["prev_status"]:
Restocked(is_stock, prev_status) == is_stock /\ ~Contains(prev_status, IN_STOCK)

\* the fields of task["ref"].update({...})
StatusFields(r, now) ==
    [lastStatus |-> StatusText(r.is_stock, r.qty), lastChecked |-> now]

\* An exception leaves main(): the process ends.
WorkerRaises ==
    /\ pc' = "crashed"
    /\ outcome' = "raised"
    /\ tasks' = <<>>
    /\ scraped' = None

\* main(): the start-up push to MY_ID
PbStart ==
    /\ prog = "pb" /\ pc = "start"
    /\ UNCHANGED hostVars
    /\ UNCHANGED goodsVars
    /\ UNCHANGED pace
    /\ \E d \in Deliveries :
         /\ delivery' = IF Truthy(MY_ID) THEN SendLinePush(MY_ID, d) ELSE "none"
         /\ IF Truthy(MY_ID) /\ SendLinePush(MY_ID, d) = "net_error"
            THEN WorkerRaises
            ELSE pc' = "idle" /\ UNCHANGED <<outcome, tasks, scraped>>
    /\ UNCHANGED <<prog, keep, store, settings, nextId, sweep, user_refs, line_user_id,
                   items, hist, html, result>>

PbGetTasks ==
    /\ prog = "pb" /\ pc = "idle" /\ sweep < SweepLimit
    /\ UNCHANGED hostVars
    /\ UNCHANGED goodsVars
    /\ UNCHANGED pace
    /\ sweep' = sweep + 1
    /\ tasks' = GetTasks
    /\ pc' = IF GetTasks = <<>> THEN "wait" ELSE "fetch"
    /\ outcome' = IF GetTasks = <<>> THEN "completed" ELSE "running"
    /\ hist' = IF keep THEN hist ELSE NoHist
    /\ UNCHANGED <<prog, keep, store, settings, nextId, user_refs, line_user_id, items,
                   scraped, html, result>>
    /\ delivery' = "none"

PbFetch ==
    /\ prog = "pb" /\ pc = "fetch"
    /\ UNCHANGED hostVars
    /\ UNCHANGED goodsVars
    /\ pace' = JustFetched
    /\ \E resp \in Responses :
         LET task == Head(tasks)
             r == ScrapePb(resp)
             prev == Contains(task.prev_status, IN_STOCK)
         IN  IF r = Raised                  \* no try/except around the call
             THEN /\ hist' = Record(task.ref, Entry(FetchSucceeded(resp), prev, FALSE))
                  /\ WorkerRaises
             ELSE IF r.res = "Success"
             THEN /\ hist' = Record(task.ref, Entry(FetchSucceeded(resp), prev, r.is_stock))
                  /\ scraped' = r
                  /\ pc' = IF Restocked(r.is_stock, task.prev_status)
                           THEN "push" ELSE "update"
                  /\ UNCHANGED <<outcome, tasks>>
             ELSE /\ hist' = Record(task.ref, Entry(FetchSucceeded(resp), prev, FALSE))
                  /\ scraped' = None
                  /\ pc' = "sleep"
                  /\ UNCHANGED <<outcome, tasks>>
    /\ UNCHANGED <<prog, keep, store, settings, nextId, sweep, user_refs,
                   line_user_id, items, html, result>>
    /\ delivery' = "none"

PbPush ==
    /\ prog = "pb" /\ pc = "push"
    /\ UNCHANGED hostVars
    /\ UNCHANGED goodsVars
    /\ UNCHANGED pace
    /\ \E d \in Deliveries :
         LET task == Head(tasks)
             sent == SendLinePush(task.line_id, d)
         IN  /\ delivery' = sent
             /\ hist' = [Amend(task.ref, "notified", IF sent = "skipped" THEN sent ELSE "called")
                            EXCEPT ![task.ref] = [@ EXCEPT ![Len(@)].to = task.line_id,
                                                           ![Len(@)].sent = sent]]
             /\ IF sent = "net_error"
                THEN WorkerRaises
                ELSE pc' = "update" /\ UNCHANGED <<outcome, tasks, scraped>>
    /\ UNCHANGED <<prog, keep, store, settings, nextId, sweep, user_refs, line_user_id,
                   items, html, result>>

PbUpdate ==
    /\ prog = "pb" /\ pc = "update"
    /\ UNCHANGED hostVars
    /\ UNCHANGED goodsVars
    /\ UNCHANGED pace
    /\ LET ref == Head(tasks).ref
           w == RefUpdate(ref, StatusFields(scraped, sweep))
       IN  \E ok \in BOOLEAN :
             IF ok /\ w.found
             THEN /\ store' = w.docs
                  /\ hist' = Amend(ref, "wrote", "ok")
                  /\ pc' = "sleep"
                  /\ UNCHANGED <<outcome, tasks, scraped>>
             ELSE /\ hist' = Amend(ref, "wrote", "failed")
                  /\ WorkerRaises
                  /\ UNCHANGED store
    /\ UNCHANGED <<prog, keep, settings, nextId, sweep, user_refs, line_user_id, items,
                   html, result>>
    /\ delivery' = "none"

\* time.sleep(random.randint(10, 20)) after every task
PbSleep ==
    /\ prog = "pb" /\ pc = "sleep"
    /\ UNCHANGED hostVars
    /\ UNCHANGED goodsVars
    /\ \E d \in ItemSleeps : pace' = Slept(d)
    /\ tasks' = Tail(tasks)
    /\ scraped' = None
    /\ pc' = IF Tail(tasks) = <<>> THEN "wait" ELSE "fetch"
    /\ outcome' = IF Tail(tasks) = <<>> THEN "completed" ELSE outcome
    /\ UNCHANGED <<prog, keep, store, settings, nextId, sweep, user_refs, line_user_id,
                   items, hist, html, result>>
    /\ delivery' = "none"

\* time.sleep(random.randint(300, 600)) between sweeps
PbWait ==
    /\ prog = "pb" /\ pc = "wait"
    /\ UNCHANGED hostVars
    /\ UNCHANGED goodsVars
    /\ \E w \in SweepWaits : pace' = Slept(w)
    /\ pc' = "idle"
    /\ UNCHANGED <<prog, keep, store, settings, nextId, sweep, outcome, user_refs,
                   line_user_id, items, tasks, scraped, hist, html, result>>
    /\ delivery' = "none"

(***************************************************************************)
(* The owners' side: subscriptions and deletions.  They run beside the     *)
(* poller at any time.  A change of the store commutes with every poller   *)
(* step that does not touch the store, so the model takes it only where    *)
(* the poller's next step reads or writes the store.                       *)
(***************************************************************************)
AboutToRead == pc \in {"idle", "owner"}
AboutToWrite == pc = "update"

\* firestore.SERVER_TIMESTAMP: a time stamp names the write that set it,
\* CREATED for a registration, the number of the sweep for a poller's update.
CREATED == 0

\* watchlist.add(doc): a new document under a fresh auto-generated id
Added(uid, doc) == store @@ (nextId :> ([uid |-> uid] @@ doc))

\* api_watchlist_add: the request's data plus the two timestamps
ApiWatchlistAdd ==
    /\ prog \in {"app", "pb"} /\ nextId <= MaxItems /\ AboutToRead
    /\ UNCHANGED hostVars
    /\ UNCHANGED goodsVars
    /\ db = "client"                \* if not db: return ... 500
    /\ UNCHANGED pace
    /\ \E uid \in Users :
         store' = Added(uid, [url |-> URL, createdAt |-> CREATED, lastChecked |-> CREATED])
    /\ nextId' = nextId + 1
    /\ UNCHANGED <<prog, keep, settings, pc, sweep, outcome, user_refs, line_user_id,
                   items, tasks, scraped, hist, html, result>>
    /\ UNCHANGED delivery

\* (mutant) a new document starts as "never notified"
ScrapedDocNeverNotified(snapshot, now) ==
    [url |-> snapshot.url, title |-> snapshot.title, price |-> snapshot.price,
     imageUrl |-> snapshot.imageUrl, inStock |-> snapshot.inStock,
     statusText |-> snapshot.statusText, createdAt |-> now, lastChecked |-> now,
     lastNotifiedStatus |-> FALSE]

\* the document api_watchlist_csv and api_watchlist_bulk add for one URL
ScrapedDoc(snapshot, now) ==
    [url |-> snapshot.url, title |-> snapshot.title, price |-> snapshot.price,
     imageUrl |-> snapshot.imageUrl, inStock |-> snapshot.inStock,
     statusText |-> snapshot.statusText, createdAt |-> now, lastChecked |-> now,
     lastNotifiedStatus |-> snapshot.inStock]

\* api_watchlist_bulk / api_watchlist_csv, one URL of the request
ApiWatchlistBulk ==
    /\ prog = "app" /\ nextId <= MaxItems /\ AboutToRead
    /\ UNCHANGED hostVars
    /\ UNCHANGED goodsVars
    /\ db = "client"                \* if not db: return ... 500
    /\ UNCHANGED pace
    /\ \E uid \in Users, resp \in Responses :
         LET snapshot == ScrapePremiumBandai(resp, URL)
         IN  /\ snapshot \notin {None, Raised}    \* if scraped:
             /\ store' = Added(uid, ScrapedDoc(snapshot, CREATED))
    /\ nextId' = nextId + 1
    /\ UNCHANGED <<prog, keep, settings, pc, sweep, outcome, user_refs, line_user_id,
                   items, tasks, scraped, hist, html, result>>
    /\ UNCHANGED delivery

\* the owner deletes a watched item (done by the front end, on the store)
DeleteItem ==
    /\ prog \in {"app", "pb"} /\ (AboutToRead \/ AboutToWrite)
    /\ UNCHANGED hostVars
    /\ UNCHANGED goodsVars
    /\ UNCHANGED pace
    /\ (nextId - 1) - Cardinality(DOMAIN store) < MaxDeletes
    /\ \E i \in DOMAIN store :
         store' = [j \in DOMAIN store \ {i} |-> store[j]]
    /\ UNCHANGED <<prog, keep, settings, nextId, pc, sweep, outcome, user_refs,
                   line_user_id, items, tasks, scraped, hist, html, result>>
    /\ UNCHANGED delivery

(***************************************************************************)
(* The pollers.                                                            *)
(***************************************************************************)
Init ==
    /\ prog \in {"app", "pb"}
    /\ HostReady
    /\ GoodsIdle
    /\ store = <<>>
    /\ settings \in InitSettings
    /\ nextId = 1
    /\ pc = IF prog = "pb" THEN "start" ELSE "idle"
    /\ sweep = 0
    /\ outcome = "none"
    /\ user_refs = <<>>
    /\ line_user_id = NoneStr
    /\ items = <<>>
    /\ tasks = <<>>
    /\ scraped = None
    /\ delivery = "none"
    /\ hist = NoHist
    /\ keep = FALSE
    /\ pace = NoFetchYet
    /\ html = NetworkError
    /\ result = None

Next ==
    \/ AppStartSweep \/ AppNextOwner \/ AppEndSweep
    \/ AppFetch \/ AppUpdate \/ AppNotify
    \/ PbStart \/ PbGetTasks \/ PbFetch \/ PbPush \/ PbUpdate \/ PbSleep \/ PbWait
    \/ ApiWatchlistAdd \/ ApiWatchlistBulk \/ DeleteItem

Spec == Init /\ [][Next]_vars

(***************************************************************************)
(* check_watchlist_job on one watched item that was registered in stock,   *)
(* with the whole history of the item kept.                                *)
(***************************************************************************)
InStockPage == <<TITLE, PRICE, IMAGE, STOCKM, PAIR_O, CLOSE>>

InitFlap ==
    /\ prog = "app"
    /\ HostReady
    /\ GoodsIdle
    /\ store = (1 :> ([uid |-> "u1"] @@ ScrapedDoc(
                   ScrapePremiumBandai(Response(FALSE, HTTP_OK, InStockPage), URL),
                   CREATED)))
    /\ settings = [u \in Users |-> [lineUserId |-> HandleOf(u)]]
    /\ nextId = 2
    /\ pc = "idle"
    /\ sweep = 0
    /\ outcome = "none"
    /\ user_refs = <<>>
    /\ line_user_id = NoneStr
    /\ items = <<>>
    /\ tasks = <<>>
    /\ scraped = None
    /\ delivery = "none"
    /\ hist = NoHist
    /\ keep = TRUE
    /\ pace = NoFetchYet
    /\ html = NetworkError
    /\ result = None

NextFlap ==
    \/ AppStartSweep \/ AppNextOwner \/ AppEndSweep
    \/ AppFetch \/ AppUpdate \/ AppNotify

SpecFlap == InitFlap /\ [][NextFlap]_vars

(***************************************************************************)
(* One poller on a watched item that the other poller, running beside it   *)
(* against the same store, writes as well.                                 *)
(***************************************************************************)
\* The update the other poller commits to an item: task["ref"].update of
\* pb_worker beside check_watchlist_job, item_doc.reference.update of
\* check_watchlist_job beside pb_worker.
OtherPollerUpdate ==
    /\ prog \in {"app", "pb"} /\ (AboutToRead \/ AboutToWrite)
    /\ UNCHANGED hostVars
    /\ UNCHANGED goodsVars
    /\ \E i \in DOMAIN store, resp \in Responses :
         IF prog = "app"
         THEN /\ ScrapePb(resp).res = "Success"
              /\ store' = [store EXCEPT ![i] = Update(@, StatusFields(ScrapePb(resp), sweep))]
         ELSE LET snapshot == ScrapePremiumBandai(resp, Get(store[i], "url", NoneStr))
              IN  /\ snapshot \notin {None, Raised}
                  /\ Transitioned(Get(store[i], "inStock", FALSE), snapshot.inStock)
                  /\ store' = [store EXCEPT ![i] = Update(@, TransitionFields(snapshot, sweep))]
    /\ UNCHANGED <<prog, keep, settings, nextId, pc, sweep, outcome, user_refs,
                   line_user_id, items, tasks, scraped, hist, pace, html, result>>
    /\ UNCHANGED delivery

InitShared ==
    /\ prog \in {"app", "pb"}
    /\ HostReady
    /\ GoodsIdle
    /\ \E b \in SweepPages :
         store = (1 :> ([uid |-> "u1"] @@ ScrapedDoc(
                     ScrapePremiumBandai(Response(FALSE, HTTP_OK, b), URL), CREATED)))
    /\ settings = [u \in Users |-> [lineUserId |-> HandleOf(u)]]
    /\ nextId = 2
    /\ pc = IF prog = "pb" THEN "start" ELSE "idle"
    /\ sweep = 0
    /\ outcome = "none"
    /\ user_refs = <<>>
    /\ line_user_id = NoneStr
    /\ items = <<>>
    /\ tasks = <<>>
    /\ scraped = None
    /\ delivery = "none"
    /\ hist = NoHist
    /\ keep = FALSE
    /\ pace = NoFetchYet
    /\ html = NetworkError
    /\ result = None

NextShared ==
    \/ AppStartSweep \/ AppNextOwner \/ AppEndSweep
    \/ AppFetch \/ AppUpdate \/ AppNotify
    \/ PbStart \/ PbGetTasks \/ PbFetch \/ PbPush \/ PbUpdate \/ PbSleep \/ PbWait
    \/ OtherPollerUpdate

SpecShared == InitShared /\ [][NextShared]_vars

(***************************************************************************)
(* Start-up.  app.py builds its clients at import and then starts the      *)
(* timer and the web server; pb_worker.py builds its clients and enters    *)
(* main().                                                                 *)
(***************************************************************************)
\* app.py, module level and __main__: os.environ[...] raises without the LINE
\* variables, the Firebase initialisation is wrapped in try/except and leaves
\* db = None on any error, the Azure client and agent are built without one;
\* then scheduler.add_job, scheduler.start, app.run.
AppBoot ==
    /\ prog = "app" /\ pc = "boot"
    /\ \E env_ok, cred_ok, azure_ok \in BOOLEAN :
         IF env_ok /\ azure_ok
         THEN /\ db' = IF cred_ok THEN "client" ELSE "none"
              /\ pc' = "idle"
              /\ UNCHANGED outcome
         ELSE /\ pc' = "crashed"
              /\ outcome' = "raised"
              /\ UNCHANGED db
    /\ UNCHANGED <<prog, keep, store, settings, nextId, sweep, user_refs, line_user_id,
                   items, tasks, scraped, delivery, hist, pace, html, result>>
    /\ UNCHANGED <<overlap, trigger, MOCK_ITEM_IN_STOCK, toggles, request>>
    /\ UNCHANGED goodsVars

\* pb_worker.py, module level: credentials.Certificate, initialize_app and
\* firestore.client() with no try/except
PbBoot ==
    /\ prog = "pb" /\ pc = "boot"
    /\ \E cred_ok \in BOOLEAN :
         IF cred_ok
         THEN /\ db' = "client"
              /\ pc' = "start"
              /\ UNCHANGED outcome
         ELSE /\ pc' = "crashed"
              /\ outcome' = "raised"
              /\ UNCHANGED db
    /\ UNCHANGED <<prog, keep, store, settings, nextId, sweep, user_refs, line_user_id,
                   items, tasks, scraped, delivery, hist, pace, html, result>>
    /\ UNCHANGED <<overlap, trigger, MOCK_ITEM_IN_STOCK, toggles, request>>
    /\ UNCHANGED goodsVars

InitBoot ==
    /\ prog \in {"app", "pb"}
    /\ db = "none"
    /\ pc = "boot"
    /\ overlap = 0
    /\ trigger = "none"
    /\ MOCK_ITEM_IN_STOCK = FALSE
    /\ toggles = 0
    /\ request = NoRequest
    /\ GoodsIdle
    /\ \E b \in SweepPages :
         store = (1 :> ([uid |-> "u1"] @@ ScrapedDoc(
                     ScrapePremiumBandai(Response(FALSE, HTTP_OK, b), URL), CREATED)))
    /\ settings = [u \in Users |-> [lineUserId |-> HandleOf(u)]]
    /\ nextId = 2
    /\ sweep = 0
    /\ outcome = "none"
    /\ user_refs = <<>>
    /\ line_user_id = NoneStr
    /\ items = <<>>
    /\ tasks = <<>>
    /\ scraped = None
    /\ delivery = "none"
    /\ hist = NoHist
    /\ keep = FALSE
    /\ pace = NoFetchYet
    /\ html = NetworkError
    /\ result = None

NextBoot == AppBoot \/ PbBoot \/ NextShared

SpecBoot == InitBoot /\ [][NextBoot]_vars

(***************************************************************************)
(* The process is told to stop.  Neither program installs a signal handler *)
(* or a shutdown hook: the process ends where it is.                       *)
(***************************************************************************)
Terminate ==
    /\ prog \in {"app", "pb"} /\ pc \notin {"boot", "crashed", "stopped"}
    /\ UNCHANGED hostVars
    /\ UNCHANGED goodsVars
    /\ pc' = "stopped"
    /\ UNCHANGED <<prog, keep, store, settings, nextId, sweep, outcome, user_refs,
                   line_user_id, items, tasks, scraped, delivery, hist, pace, html, result>>

NextStop == Next \/ Terminate

SpecStop == Init /\ [][NextStop]_vars

(***************************************************************************)
(* The interval timer of app.py.  scheduler.add_job(check_watchlist_job,   *)
(* trigger="interval", minutes=10) gives no max_instances, so the          *)
(* scheduler's default of one running instance per job applies: a trigger  *)
(* that finds the job running is skipped.  AppStartSweep is the trigger    *)
(* that finds the job idle.                                                *)
(***************************************************************************)
\* (mutant) add_job(..., max_instances=2)
MaxInstancesTwo == 1 + 1

MAX_INSTANCES == 1

\* Instances of check_watchlist_job that are running.
Running == (IF pc \in {"owner", "fetch", "update", "notify"} THEN 1 ELSE 0) + overlap

IntervalFiresWhileRunning ==
    /\ prog = "app" /\ pc \in {"owner", "fetch", "update", "notify"}
    /\ IF Running < MAX_INSTANCES
       THEN overlap' = overlap + 1 /\ trigger' = "started"
       ELSE overlap' = overlap /\ trigger' = "skipped"
    /\ UNCHANGED <<db, MOCK_ITEM_IN_STOCK, toggles, request>>
    /\ UNCHANGED goodsVars
    /\ UNCHANGED <<prog, keep, store, settings, nextId, pc, sweep, outcome, user_refs,
                   line_user_id, items, tasks, scraped, delivery, hist, pace, html, result>>

InitTimer == prog = "app" /\ InitShared

NextTimer ==
    \/ AppStartSweep \/ AppNextOwner \/ AppEndSweep
    \/ AppFetch \/ AppUpdate \/ AppNotify
    \/ IntervalFiresWhileRunning

SpecTimer == InitTimer /\ [][NextTimer]_vars

(***************************************************************************)
(* The scrapers alone, on every page of up to MaxLen markers.              *)
(***************************************************************************)
Pages == UNION {[1..n -> Tokens] : n \in 0..MaxLen}

InitScrape ==
    /\ prog = "scrape"
    /\ HostReady
    /\ GoodsIdle
    /\ html \in {NetworkError} \cup {Response(FALSE, st, b) : st \in Statuses, b \in Pages}
    /\ result = None
    /\ store = <<>>
    /\ settings = [u \in Users |-> [lineUserId |-> HandleOf(u)]]
    /\ nextId = 1
    /\ pc = "idle"
    /\ sweep = 0
    /\ outcome = "none"
    /\ user_refs = <<>>
    /\ line_user_id = NoneStr
    /\ items = <<>>
    /\ tasks = <<>>
    /\ scraped = None
    /\ delivery = "none"
    /\ hist = NoHist
    /\ keep = FALSE
    /\ pace = NoFetchYet

CallScrapePremiumBandai ==
    /\ prog = "scrape" /\ result = None
    /\ UNCHANGED hostVars
    /\ UNCHANGED goodsVars
    /\ result' = [fn |-> "scrape_premium_bandai", app |-> ScrapePremiumBandai(html, URL)]
    /\ UNCHANGED <<prog, keep, html>> /\ UNCHANGED pipeVars

CallScrapePb ==
    /\ prog = "scrape" /\ result = None
    /\ UNCHANGED hostVars
    /\ UNCHANGED goodsVars
    /\ result' = [fn |-> "scrape_pb", pb |-> ScrapePb(html)]
    /\ UNCHANGED <<prog, keep, html>> /\ UNCHANGED pipeVars

NextScrape == CallScrapePremiumBandai \/ CallScrapePb

SpecScrape == InitScrape /\ [][NextScrape]_vars

(***************************************************************************)
(* The enrichment step alone (api_monitor calls it), on the same pages.    *)
(***************************************************************************)
CallGetStockStatusViaAgent ==
    /\ prog = "scrape" /\ result = None
    /\ UNCHANGED hostVars
    /\ UNCHANGED goodsVars
    /\ \E a \in AgentOutcomes :
         result' = [fn |-> "get_stock_status_via_agent", agent |-> a,
                    value |-> GetStockStatusViaAgent(html, URL, a)]
    /\ UNCHANGED <<prog, keep, html>> /\ UNCHANGED pipeVars

NextAgent == CallGetStockStatusViaAgent

SpecAgent == InitScrape /\ [][NextAgent]_vars

(***************************************************************************)
(* scrape_premium_bandai on the pages that hold any subset of the four     *)
(* markers it reads.                                                       *)
(***************************************************************************)
Markers == {TITLE, PRICE, IMAGE, STOCKM}

\* The page with the markers of S; the stock literal comes with its entry.
MarkerPage(S, glyph) ==
    LET Kept(t) == t \in S \/ (t \in {PAIR_O, PAIR_X, CLOSE} /\ STOCKM \in S)
    IN  SelectSeq(<<TITLE, IMAGE, PRICE, STOCKM, glyph, CLOSE>>, Kept)

MarkerPages == {MarkerPage(S, g) : S \in SUBSET Markers, g \in {PAIR_O, PAIR_X}}

InitDegrade ==
    /\ prog = "scrape"
    /\ HostReady
    /\ GoodsIdle
    /\ html \in {NetworkError} \cup
                {Response(FALSE, st, b) : st \in Statuses, b \in MarkerPages}
    /\ result = None
    /\ store = <<>>
    /\ settings = [u \in Users |-> [lineUserId |-> HandleOf(u)]]
    /\ nextId = 1
    /\ pc = "idle"
    /\ sweep = 0
    /\ outcome = "none"
    /\ user_refs = <<>>
    /\ line_user_id = NoneStr
    /\ items = <<>>
    /\ tasks = <<>>
    /\ scraped = None
    /\ delivery = "none"
    /\ hist = NoHist
    /\ keep = FALSE
    /\ pace = NoFetchYet

SpecDegrade == InitDegrade /\ [][NextScrape]_vars

(***************************************************************************)
(* The built-in test item: one owner watches the /test-item page of this   *)
(* process, registered through the bulk endpoint while the flag was off;   *)
(* the toggle endpoint is called beside the sweeps.                        *)
(***************************************************************************)
MaxToggles == 3     \* calls of the toggle endpoint per behaviour

\* toggle_test_item(): MOCK_ITEM_IN_STOCK = not MOCK_ITEM_IN_STOCK
ToggleTestItem ==
    /\ prog = "app" /\ toggles < MaxToggles
    /\ MOCK_ITEM_IN_STOCK' = ~MOCK_ITEM_IN_STOCK
    /\ toggles' = toggles + 1
    /\ UNCHANGED <<db, overlap, trigger, request>>
    /\ UNCHANGED goodsVars
    /\ UNCHANGED <<prog, html, result>>
    /\ UNCHANGED pipeVars

InitMock ==
    /\ prog = "app"
    /\ HostReady
    /\ GoodsIdle
    /\ store = (1 :> ([uid |-> "u1"] @@ ScrapedDoc(
                   ScrapePremiumBandai(
                       Response(FALSE, HTTP_OK, TestItemPage(FALSE)), TEST_URL),
                   CREATED)))
    /\ settings = [u \in Users |-> [lineUserId |-> HandleOf(u)]]
    /\ nextId = 2
    /\ pc = "idle"
    /\ sweep = 0
    /\ outcome = "none"
    /\ user_refs = <<>>
    /\ line_user_id = NoneStr
    /\ items = <<>>
    /\ tasks = <<>>
    /\ scraped = None
    /\ delivery = "none"
    /\ hist = NoHist
    /\ keep = TRUE
    /\ pace = NoFetchYet
    /\ html = NetworkError
    /\ result = None

NextMock == ToggleTestItem \/ NextFlap

SpecMock == InitMock /\ [][NextMock]_vars

(***************************************************************************)
(* Registration in bulk: one request to api_watchlist_csv or               *)
(* api_watchlist_bulk, handled as a whole.  A row of the request carries   *)
(* the value found for its URL (a text, nothing, or a number), and what    *)
(* the fetch of that URL and the store's add will do when they are called. *)
(***************************************************************************)
MaxRows == 6        \* rows of a registration request: one more than the limit
MAX_BULK == 5       \* if len(rows) > 5 / if len(urls) > 5

OTHER_URL == "https://example.com/item/1"
BLANK == " "

\* "p-bandai.jp" in url or "/test-item" in url, over the URLs of the model
TargetSite(url) == url \in {URL, TEST_URL}

\* str.strip(), over the texts of the model
Strip(text) == IF text = BLANK THEN "" ELSE text

Row(type, url, resp, add) == [type |-> type, url |-> url, resp |-> resp, add |-> add]
GoodResponse == Response(FALSE, HTTP_OK, InStockPage)

\* The rows a request is made of.  A CSV row shorter than the header has no
\* value (None) in the url column; a JSON list can hold null or a number.
OkRow == Row("str", URL, GoodResponse, TRUE)
TextRows ==
    {OkRow, Row("str", URL, GoodResponse, FALSE), Row("str", URL, NetworkError, FALSE),
     Row("str", OTHER_URL, GoodResponse, TRUE), Row("str", "", NetworkError, FALSE)}
CsvRows == TextRows \cup {Row("str", BLANK, NetworkError, FALSE),
                          Row("null", NoneStr, NetworkError, FALSE)}
BulkRows == TextRows \cup {Row("null", NoneStr, NetworkError, FALSE),
                           Row("number", NoneStr, NetworkError, FALSE)}

SeqsUpTo(S, n) == UNION {[1..m -> S] : m \in 0..n}

\* Requests within the limit are made of any rows; requests over the limit of
\* rows that would be registered and rows that cannot be read.
RowLists(S, unreadable) ==
    SeqsUpTo(S, MAX_BULK)
        \cup UNION {[1..m -> {OkRow, unreadable}] : m \in (MAX_BULK + 1)..MaxRows}

Request(kind, header, rows) ==
    [kind |-> kind, header |-> header, rows |-> rows, state |-> "pending",
     status |-> 0, success |-> 0, errors |-> 0]

\* A CSV file without a url column is drawn with registrable rows only.
Requests ==
    {Request("csv", TRUE, r) :
        r \in RowLists(CsvRows, Row("null", NoneStr, NetworkError, FALSE))}
    \cup {Request("csv", FALSE, r) : r \in SeqsUpTo({OkRow}, MaxRows)}
    \cup {Request("bulk", TRUE, r) :
        r \in RowLists(BulkRows, Row("number", NoneStr, NetworkError, FALSE))}

\* The statement that reads the URL of a row raises: v.strip() on None in
\* api_watchlist_csv, "p-bandai.jp" not in url on a number in api_watchlist_bulk.
RowRaises(kind, row) ==
    IF kind = "csv" THEN row.type = "null" ELSE row.type = "number"

\* The url the loop works with.
RowUrl(kind, row) ==
    IF row.type # "str" THEN NoneStr
    ELSE IF kind = "csv" THEN Strip(row.url) ELSE row.url

NoneAdded == [docs |-> <<>>, success |-> 0, errors |-> 0, raised |-> FALSE]

\* (mutant) a row that fails the target-site check is registered all the same
RowStepAnySite(kind, row, acc) ==
    LET url == RowUrl(kind, row)
        snapshot == ScrapePremiumBandai(row.resp, url)
    IN  IF ~Truthy(url)
        THEN IF kind = "csv" THEN [acc EXCEPT !.errors = @ + 1] ELSE acc
        ELSE IF snapshot = None
        THEN [acc EXCEPT !.errors = @ + 1]
        ELSE IF row.add
        THEN [acc EXCEPT !.docs = Append(@, ScrapedDoc(snapshot, CREATED)),
                         !.success = @ + 1]
        ELSE [acc EXCEPT !.errors = @ + 1]

\* One pass of the loop over rows / urls, for a row whose URL can be read.
RowStep(kind, row, acc) ==
    LET url == RowUrl(kind, row)
        snapshot == ScrapePremiumBandai(row.resp, url)
    IN  IF ~Truthy(url)                     \* csv: an error entry; bulk: continue
        THEN IF kind = "csv" THEN [acc EXCEPT !.errors = @ + 1] ELSE acc
        ELSE IF ~TargetSite(url)
        THEN [acc EXCEPT !.errors = @ + 1]
        ELSE IF snapshot = None             \* if scraped: ... else: error entry
        THEN [acc EXCEPT !.errors = @ + 1]
        ELSE IF row.add                     \* watchlist_ref.add in try/except
        THEN [acc EXCEPT !.docs = Append(@, ScrapedDoc(snapshot, CREATED)),
                         !.success = @ + 1]
        ELSE [acc EXCEPT !.errors = @ + 1]

\* The loop: it stops where a statement outside the try raises.
RECURSIVE BulkLoop(_, _, _)
BulkLoop(kind, rows, acc) ==
    IF rows = <<>> THEN acc
    ELSE IF RowRaises(kind, Head(rows)) THEN [acc EXCEPT !.raised = TRUE]
    ELSE BulkLoop(kind, Tail(rows), RowStep(kind, Head(rows), acc))

\* The store after watchlist_ref.add of each document of docs, in order.
AddedAll(uid, docs) ==
    [i \in DOMAIN store \cup (nextId..(nextId + Len(docs) - 1)) |->
        IF i \in DOMAIN store THEN store[i]
        ELSE [uid |-> uid] @@ docs[i - nextId + 1]]

Reply(status, success, errors) ==
    [request EXCEPT !.state = "answered", !.status = status,
                    !.success = success, !.errors = errors]

\* The checks made before the loop: the status they answer with, 0 if they pass.
Rejected(kind) ==
    IF db # "client" THEN 500
    ELSE IF Len(request.rows) > MAX_BULK \/ request.rows = <<>> THEN 400
    ELSE IF kind = "csv" /\ ~request.header THEN 400
    ELSE 0

\* The body the two endpoints share.
BulkRegistration(kind) ==
    LET acc == BulkLoop(kind, request.rows, NoneAdded)
    IN  IF Rejected(kind) # 0
        THEN /\ request' = Reply(Rejected(kind), 0, 0)
             /\ UNCHANGED <<store, nextId>>
        ELSE /\ store' = AddedAll("u1", acc.docs)
             /\ nextId' = nextId + Len(acc.docs)
             /\ request' = IF acc.raised THEN Reply(500, 0, 0)
                           ELSE Reply(HTTP_OK, acc.success, acc.errors)

\* api_watchlist_csv(), the whole request
ApiWatchlistCsvRequest ==
    /\ prog = "app" /\ request.kind = "csv" /\ request.state = "pending"
    /\ BulkRegistration("csv")
    /\ UNCHANGED <<prog, settings, pc, sweep, outcome, user_refs, line_user_id, items,
                   tasks, scraped, delivery, hist, keep, pace, html, result>>
    /\ UNCHANGED <<db, overlap, trigger, MOCK_ITEM_IN_STOCK, toggles>>
    /\ UNCHANGED goodsVars

\* api_watchlist_bulk(), the whole request
ApiWatchlistBulkRequest ==
    /\ prog = "app" /\ request.kind = "bulk" /\ request.state = "pending"
    /\ BulkRegistration("bulk")
    /\ UNCHANGED <<prog, settings, pc, sweep, outcome, user_refs, line_user_id, items,
                   tasks, scraped, delivery, hist, keep, pace, html, result>>
    /\ UNCHANGED <<db, overlap, trigger, MOCK_ITEM_IN_STOCK, toggles>>
    /\ UNCHANGED goodsVars

InitBulk ==
    /\ prog = "app"
    /\ db = "client" /\ overlap = 0 /\ trigger = "none"
    /\ MOCK_ITEM_IN_STOCK = FALSE /\ toggles = 0
    /\ request \in Requests
    /\ GoodsIdle
    /\ store = <<>>
    /\ settings = [u \in Users |-> [lineUserId |-> HandleOf(u)]]
    /\ nextId = 1
    /\ pc = "idle"
    /\ sweep = 0
    /\ outcome = "none"
    /\ user_refs = <<>>
    /\ line_user_id = NoneStr
    /\ items = <<>>
    /\ tasks = <<>>
    /\ scraped = None
    /\ delivery = "none"
    /\ hist = NoHist
    /\ keep = FALSE
    /\ pace = NoFetchYet
    /\ html = NetworkError
    /\ result = None

NextBulk == ApiWatchlistCsvRequest \/ ApiWatchlistBulkRequest

SpecBulk == InitBulk /\ [][NextBulk]_vars

(***************************************************************************)
(* daily_goods_monitor_with_auction.py: save_to_firestore.  A run of the   *)
(* monitor calls it once per topic, one call after the other; each query   *)
(* and each add is one request to the store, so the steps of two runs      *)
(* interleave between them.  A report is kept as its judgment.             *)
(***************************************************************************)
MaxCalls == 3       \* calls of save_to_firestore per run

HIGH == "kou"                   \* the judgment "high"
Titles == {"t1", "t2"}
Reports == {[judgment |-> HIGH], [judgment |-> "tei"], [error |-> "AI"]}

\* (mutant) the query for the title finds nothing
ExistingNone(collection, title) == {}

\* ref.where("title", "==", title).limit(1).get(): the documents found
Existing(collection, title) ==
    {n \in DOMAIN collection : collection[n].title = title}

\* the document added to the monitoring collection
MonitorDoc(source, title, report) ==
    [source |-> source, title |-> title, analysis |-> report]

\* the document added to the purchase list
PurchaseDoc(source, title, report) ==
    [source |-> source, title |-> title, analysis |-> report, status |-> "mi-shiire"]

\* save_to_firestore touches the two collections and nothing else.
GoodsFrame ==
    /\ UNCHANGED hostVars
    /\ UNCHANGED <<prog, html, result>>
    /\ UNCHANGED pipeVars

\* A run that is not inside save_to_firestore.
Between(calls) == [pc |-> "idle", calls |-> calls]

\* save_to_firestore returns (also from its except branch).
Return(r) == runs' = [runs EXCEPT ![r] = Between(@.calls)]

\* save_to_firestore(source, topic, report, auction_data) is called:
\* if not db: return
SaveToFirestore(r) ==
    /\ prog = "goods" /\ runs[r].pc = "idle" /\ runs[r].calls < MaxCalls
    /\ GoodsFrame
    /\ \E title \in Titles, report \in Reports :
         runs' = [runs EXCEPT ![r] =
                    IF db = "none" THEN Between(@.calls + 1)
                    ELSE [pc |-> "query", calls |-> @.calls + 1, source |-> "news",
                          title |-> title, report |-> report,
                          existed |-> Existing(monitoring, title) # {}]]
    /\ UNCHANGED <<monitoring, purchase_list>>

\* existing = ref.where(...).limit(1).get(); if list(existing): return
SaveQuery(r) ==
    /\ prog = "goods" /\ runs[r].pc = "query"
    /\ GoodsFrame
    /\ \E ok \in BOOLEAN :
         IF ok /\ Existing(monitoring, runs[r].title) = {}
         THEN runs' = [runs EXCEPT ![r].pc = "add"]
         ELSE Return(r)
    /\ UNCHANGED <<monitoring, purchase_list>>

\* ref.add(doc); if judgment == "high": ...
SaveAdd(r) ==
    /\ prog = "goods" /\ runs[r].pc = "add"
    /\ GoodsFrame
    /\ \E ok \in BOOLEAN :
         IF ok
         THEN /\ monitoring' = Append(monitoring,
                     MonitorDoc(runs[r].source, runs[r].title, runs[r].report))
              /\ IF Get(runs[r].report, "judgment", "") = HIGH
                 THEN runs' = [runs EXCEPT ![r].pc = "purchase_query"]
                 ELSE Return(r)
         ELSE Return(r) /\ UNCHANGED monitoring
    /\ UNCHANGED purchase_list

\* existing_purchase = purchase_ref.where(...).limit(1).get()
SavePurchaseQuery(r) ==
    /\ prog = "goods" /\ runs[r].pc = "purchase_query"
    /\ GoodsFrame
    /\ \E ok \in BOOLEAN :
         IF ok /\ Existing(purchase_list, runs[r].title) = {}
         THEN runs' = [runs EXCEPT ![r].pc = "purchase_add"]
         ELSE Return(r)
    /\ UNCHANGED <<monitoring, purchase_list>>

\* purchase_ref.add(purchase_doc)
SavePurchaseAdd(r) ==
    /\ prog = "goods" /\ runs[r].pc = "purchase_add"
    /\ GoodsFrame
    /\ \E ok \in BOOLEAN :
         IF ok
         THEN purchase_list' = Append(purchase_list,
                  PurchaseDoc(runs[r].source, runs[r].title, runs[r].report))
         ELSE UNCHANGED purchase_list
    /\ Return(r)
    /\ UNCHANGED monitoring

\* The module level of the script: db = None unless the Firebase
\* initialisation succeeds; n runs of the script against empty collections.
InitGoods(n) ==
    /\ prog = "goods"
    /\ db \in {"client", "none"}
    /\ overlap = 0 /\ trigger = "none"
    /\ MOCK_ITEM_IN_STOCK = FALSE /\ toggles = 0
    /\ request = NoRequest
    /\ monitoring = <<>>
    /\ purchase_list = <<>>
    /\ runs = [r \in 1..n |-> Between(0)]
    /\ store = <<>>
    /\ settings = [u \in Users |-> [lineUserId |-> HandleOf(u)]]
    /\ nextId = 1
    /\ pc = "idle"
    /\ sweep = 0
    /\ outcome = "none"
    /\ user_refs = <<>>
    /\ line_user_id = NoneStr
    /\ items = <<>>
    /\ tasks = <<>>
    /\ scraped = None
    /\ delivery = "none"
    /\ hist = NoHist
    /\ keep = FALSE
    /\ pace = NoFetchYet
    /\ html = NetworkError
    /\ result = None

\* One run: main() makes its calls one after the other.
InitSave == InitGoods(1)
NextSave ==
    \E r \in DOMAIN runs :
        \/ SaveToFirestore(r) \/ SaveQuery(r) \/ SaveAdd(r)
        \/ SavePurchaseQuery(r) \/ SavePurchaseAdd(r)
SpecSave == InitSave /\ [][NextSave]_vars

\* Two runs of the script at the same time.
InitRace == InitGoods(2)
SpecRace == InitRace /\ [][NextSave]_vars

(***************************************************************************)
(* Properties.                                                             *)
(***************************************************************************)
\* The entries of hist, as (item, position) pairs.
Entries == {p \in ItemIds \X (1..(MaxSweeps + FlapSweeps)) : p[2] <= Len(hist[p[1]])}
E(p) == hist[p[1]][p[2]]

\* The item the poller is in the middle of: its last entry is not final yet.
InFlight(i) ==
    \/ prog = "app" /\ pc \in {"update", "notify"} /\ Head(items).ref = i
    \/ prog = "pb" /\ pc \in {"push", "update"} /\ Head(tasks).ref = i
Finished(p) == ~(InFlight(p[1]) /\ p[2] = Len(hist[p[1]]))

\* The step is the fetch of item i, and the fetch fails.
FetchFails(i) ==
    /\ pc = "fetch"
    /\ Len(hist'[i]) = Len(hist[i]) + 1
    /\ ~hist'[i][Len(hist'[i])].fetchOk

\* C1 (as claimed): in check_watchlist_job, once an item of an owner with a
\* channel handle has been dealt with in a sweep, the notifier was called for
\* it if and only if its fetch succeeded and the scraped inStock differs from
\* the stored inStock the sweep read.
C1_NotifyIffTransition ==
    prog = "app" =>
        \A p \in Entries :
            Finished(p) =>
                ((E(p).notified = "called") <=> (E(p).fetchOk /\ E(p).prev # E(p).cur))

\* C2: in both pollers, an item whose successful fetch reports the
\* availability the store holds for it never has the notifier called for it,
\* in whichever sweep.
C2_UnchangedNeverNotifies ==
    \A p \in Entries :
        (E(p).fetchOk /\ E(p).cur = E(p).prev) => E(p).notified = "no"

\* C2 witness: pb_worker, second sweep in a row that finds an in-stock item in stock.
C2_Witness ==
    /\ prog = "pb" /\ sweep = 2 /\ pc = "wait"
    /\ \E p \in Entries :
         /\ E(p).sweep = 2 /\ E(p).fetchOk /\ E(p).prev /\ E(p).cur
         /\ E(p).wrote = "ok" /\ E(p).notified = "no"

\* Three entries of one item from three consecutive sweeps, each a successful
\* fetch: available (as stored), then unavailable, then available.
Flap(i, n) ==
    /\ n + 2 <= Len(hist[i])
    /\ \A k \in 0..2 : hist[i][n + k].fetchOk /\ hist[i][n + k].sweep = hist[i][n].sweep + k
    /\ hist[i][n].prev /\ hist[i][n].cur
    /\ ~hist[i][n + 1].cur
    /\ hist[i][n + 2].cur
    /\ Finished(<<i, n + 2>>)

TwoNotifications(i, n) ==
    /\ hist[i][n].notified = "no"
    /\ hist[i][n + 1].notified = "called"
    /\ hist[i][n + 2].notified = "called"

C5_FailedFetchChangesNothing ==
    /\ [](\A p \in Entries : ~E(p).fetchOk => E(p).wrote = "no" /\ E(p).notified = "no")
    /\ [][\A i \in ItemIds : FetchFails(i) => store' = store /\ delivery' = "none"]_vars

C5_Witness ==
    \E p \in Entries :
        /\ ~E(p).fetchOk /\ Finished(p) /\ E(p).sweep = 2
        /\ p[1] \in DOMAIN store
        /\ Get(store[p[1]], "lastChecked", CREATED) = 1
        /\ pc \in {"idle", "wait"}

\* C6: in check_watchlist_job, an item the current sweep called the notifier
\* for has lastNotifiedStatus = inStock = the availability of the snapshot
\* that triggered the call.
C6_NotifiedEqualsStored ==
    prog = "app" =>
        \A p \in Entries :
            (E(p).sweep = sweep /\ E(p).notified = "called" /\ p[1] \in DOMAIN store)
                => /\ "lastNotifiedStatus" \in DOMAIN store[p[1]]
                   /\ store[p[1]].lastNotifiedStatus = E(p).cur
                   /\ store[p[1]].inStock = E(p).cur

C6_Witness ==
    /\ prog = "app" /\ pc = "idle" /\ outcome = "completed"
    /\ \E p \in Entries :
         /\ E(p).sweep = sweep /\ E(p).notified = "called"
         /\ ~E(p).prev /\ E(p).cur
         /\ p[1] \in DOMAIN store /\ store[p[1]].inStock

\* C7: a page fetched with status 200 that holds no orderstock_list marker
\* is scraped as not in stock by both scrapers.
NoStockMarker(body) == \A n \in DOMAIN body : body[n] # STOCKM

C7_FailClosed ==
    (result # None /\ FetchSucceeded(html) /\ NoStockMarker(html.body)) =>
        IF result.fn = "scrape_premium_bandai"
        THEN /\ result.app # None
             /\ ~result.app.inStock
             /\ result.app.statusText = OUT_OF_STOCK
        ELSE /\ result.pb.res = "Success"
             /\ ~result.pb.is_stock

\* C7 witness: the availability glyph is on the page, the marker is not.
C7_Witness ==
    /\ result # None /\ result.fn = "scrape_premium_bandai"
    /\ FetchSucceeded(html) /\ NoStockMarker(html.body)
    /\ \E n \in DOMAIN html.body : html.body[n] = PAIR_O
    /\ ~result.app.inStock

\* C8: a failing fetch never ends the sweep: the poller goes on with the
\* items that follow, in both pollers.
C8_FetchFailureIsolated ==
    [][\A i \in ItemIds : FetchFails(i) =>
          /\ outcome' = "running"
          /\ IF prog = "app"
             THEN items' = Tail(items) /\ user_refs' = user_refs /\ pc' \in {"fetch", "owner"}
             ELSE tasks' = tasks /\ pc' = "sleep"]_vars

\* C8 witness: a completed sweep in which the first item's fetch failed and
\* a later item of the same owner was fetched and notified.
C8_Witness ==
    /\ prog = "app" /\ outcome = "completed" /\ pc = "idle"
    /\ 1 \in DOMAIN store /\ 2 \in DOMAIN store /\ store[1].uid = store[2].uid
    /\ Len(hist[1]) = 1 /\ ~hist[1][1].fetchOk
    /\ Len(hist[2]) = 1 /\ hist[2][1].fetchOk /\ hist[2][1].notified = "called"

\* C9 (as claimed): a failing store update never ends the sweep early and
\* never ends the process.
C9_StoreFailureIsolated ==
    \A p \in Entries :
        (E(p).sweep = sweep /\ E(p).wrote = "failed") => outcome # "raised"

\* C10 (as claimed): in check_watchlist_job a push that fails leaves the
\* committed values in the store and does not end the sweep.
C10_DeliveryFailureIsolated ==
    (prog = "app" /\ delivery \in {"api_error", "net_error"}) =>
        /\ outcome # "raised"
        /\ \A p \in Entries :
             (E(p).sweep = sweep /\ E(p).notified = "called" /\ p[1] \in DOMAIN store)
                 => store[p[1]].inStock = E(p).cur

\* The availability last fetched successfully for item i within its first m
\* entries; before any successful fetch, the availability the first sweep read.
RECURSIVE LastFetched(_, _)
LastFetched(i, m) ==
    IF m = 0 THEN hist[i][1].prev
    ELSE IF hist[i][m].fetchOk THEN hist[i][m].cur
    ELSE LastFetched(i, m - 1)

\* Changes of availability between consecutive successful fetches, and calls
\* of the notifier, within the first n entries of item i.
RECURSIVE Changes(_, _)
Changes(i, n) ==
    IF n = 0 THEN 0
    ELSE Changes(i, n - 1)
         + (IF hist[i][n].fetchOk /\ hist[i][n].cur # LastFetched(i, n - 1) THEN 1 ELSE 0)

RECURSIVE Calls(_, _)
Calls(i, n) ==
    IF n = 0 THEN 0
    ELSE Calls(i, n - 1) + (IF hist[i][n].notified = "called" THEN 1 ELSE 0)

FailedDelivery(e) == e.notified = "called" /\ e.sent \in {"api_error", "net_error"}

\* Entry m of item i follows entry n with no change of the fetched availability.
SameSince(i, n, m) ==
    /\ n < m /\ m <= Len(hist[i])
    /\ \A k \in (n + 1)..m : hist[i][k].fetchOk => hist[i][k].cur = hist[i][n].cur

\* C11: over the sweeps of check_watchlist_job, whatever fails, the notifier
\* is called at most once per change of an item's availability between two
\* consecutive successful fetches, and after a failed delivery no later sweep
\* calls it again while the fetched availability stays the same.
C11_AtMostOncePerTransition ==
    \A i \in ItemIds :
        /\ \A n \in 0..Len(hist[i]) : Calls(i, n) <= Changes(i, n)
        /\ \A n \in 1..Len(hist[i]) : \A m \in 1..Len(hist[i]) :
               (FailedDelivery(hist[i][n]) /\ SameSince(i, n, m))
                   => hist[i][m].notified = "no"

\* C11 witness: the delivery of the second sweep failed with an exception, the
\* third sweep fetched the same availability and made no call.
C11_Witness ==
    \E i \in ItemIds :
        /\ Len(hist[i]) = 3 /\ pc = "idle" /\ outcome = "completed"
        /\ hist[i][2].fetchOk /\ hist[i][2].sent = "net_error"
        /\ hist[i][3].fetchOk /\ hist[i][3].cur = hist[i][2].cur
        /\ hist[i][3].notified = "no"
        /\ Calls(i, 3) = 1 /\ Changes(i, 3) = 1

\* A detected transition: app compares the flags, pb_worker looks for a restock.
Detected(e) ==
    e.fetchOk /\ (IF prog = "app" THEN e.prev # e.cur ELSE e.cur /\ ~e.prev)

\* C12 (as claimed): on every detected transition both the store update and
\* the notification are attempted, whichever of the two fails.
C12_BothAttempted ==
    \A p \in Entries :
        (Finished(p) /\ Detected(E(p))) => E(p).wrote # "no" /\ E(p).notified # "no"

\* The availability fields of a stored item belong to one write.
Whole(doc) ==
    "inStock" \in DOMAIN doc =>
        /\ Get(doc, "statusText", NoneStr) = (IF doc.inStock THEN IN_STOCK ELSE OUT_OF_STOCK)
        /\ "lastNotifiedStatus" \in DOMAIN doc
        /\ doc.lastNotifiedStatus = doc.inStock

\* Item i's last entry turns to a failed write in this step.
WriteFails(i) ==
    /\ hist[i] # <<>> /\ Len(hist'[i]) = Len(hist[i])
    /\ hist[i][Len(hist[i])].wrote = "no"
    /\ hist'[i][Len(hist[i])].wrote = "failed"

\* The step changes a field of item i that the pollers write.
Rewritten(i, f) ==
    /\ i \in DOMAIN store /\ i \in DOMAIN store'
    /\ f \in DOMAIN store'[i]
    /\ f \in DOMAIN store[i] => store'[i][f] # store[i][f]

\* C13: no partial commit.  In every reachable state the availability fields
\* of each stored item are those of a single write (inStock, its statusText
\* and lastNotifiedStatus agree); a step that changes any written field puts
\* the time stamp of that same write; a failed write leaves the store as it
\* was.  With the other poller writing the same item.
C13_NoPartialCommit ==
    /\ [](\A i \in DOMAIN store : Whole(store[i]))
    /\ [][\A i \in ItemIds :
            /\ WriteFails(i) => store' = store
            /\ (\E f \in {"inStock", "statusText", "lastNotifiedStatus", "lastStatus"} :
                    Rewritten(i, f)) => store'[i].lastChecked = sweep]_vars

\* C13 witness: check_watchlist_job committed a change of the item after
\* pb_worker, running beside it, had written the same item.
C13_Witness ==
    /\ prog = "app" /\ pc = "notify"
    /\ LET i == Head(items).ref
       IN  /\ i \in DOMAIN store
           /\ "lastStatus" \in DOMAIN store[i]
           /\ store[i].inStock = scraped.inStock
           /\ store[i].statusText = scraped.statusText
           /\ store[i].lastNotifiedStatus = scraped.inStock
           /\ store[i].lastChecked = sweep
           /\ hist[i][Len(hist[i])].prev # store[i].inStock

\* The owner has a settings document that holds a channel handle.
HasHandle(uid) ==
    /\ uid \in DOMAIN settings
    /\ "lineUserId" \in DOMAIN settings[uid]
    /\ settings[uid].lineUserId \notin {NoneStr, ""}

\* The step visits the next owner of the sweep of check_watchlist_job.
VisitsOwner(uid) ==
    /\ prog = "app" /\ pc = "owner"
    /\ user_refs # <<>> /\ Head(user_refs) = uid /\ user_refs' = Tail(user_refs)

\* C14: in check_watchlist_job an owner without a channel handle (no settings
\* document, or one without lineUserId) is skipped: none of the owner's items
\* is fetched, updated or notified in the sweep, the step that skips the
\* owner raises nothing and changes nothing, and the sweep goes on with the
\* owners that follow.
C14_OwnerWithoutHandleSkipped ==
    /\ [](prog = "app" =>
            \A i \in DOMAIN store :
                ~HasHandle(store[i].uid) =>
                    hist[i] = <<>> /\ store[i].lastChecked = CREATED)
    /\ [][\A uid \in Users :
            (VisitsOwner(uid) /\ ~HasHandle(uid)) =>
                /\ pc' = "owner" /\ outcome' = "running"
                /\ items' = items /\ store' = store /\ hist' = hist
                /\ delivery' = "none"]_vars

\* C14 witness: a completed sweep that skipped the first owner, who has an
\* item and no settings document, and notified the second owner.
C14_Witness ==
    /\ prog = "app" /\ pc = "idle" /\ outcome = "completed"
    /\ "u1" \notin DOMAIN settings
    /\ \E i, j \in DOMAIN store :
         /\ store[i].uid = "u1" /\ hist[i] = <<>>
         /\ store[j].uid = "u2" /\ Len(hist[j]) = 1
         /\ hist[j][1].notified = "called" /\ hist[j][1].to = HandleOf("u2")

C16_UnchangedRefreshesTimestamp ==
    prog = "app" =>
        \A p \in Entries :
            (E(p).sweep = sweep /\ E(p).fetchOk /\ E(p).prev = E(p).cur
                 /\ p[1] \in DOMAIN store)
                => /\ E(p).notified = "no"
                   /\ Get(store[p[1]], "inStock", FALSE) = E(p).prev
                   /\ store[p[1]].lastChecked = sweep

\* A fetch was made earlier in the sweep that is running.
FetchedThisSweep == \E i \in ItemIds : hist[i] # <<>> /\ hist[i][Len(hist[i])].sweep = sweep

\* C17: in pb_worker.main, whenever a fetch is about to be made after an
\* earlier one, the worker has slept since that one: 10 to 20 seconds if it
\* was in the same sweep, whether it succeeded or failed, and at least
\* 10 + 300 seconds (the sleep after the task and the wait after the sweep) if
\* it was in an earlier sweep.
C17_PbPaced ==
    (prog = "pb" /\ pc = "fetch" /\ pace.fetched) =>
        IF FetchedThisSweep
        THEN pace.slept \in SLEEP_MIN..SLEEP_MAX
        ELSE pace.slept >= SLEEP_MIN + WAIT_MIN

\* C17 witness: the second task of a sweep is about to be fetched after the
\* fetch of the first one failed and the worker slept.
C17_Witness ==
    /\ prog = "pb" /\ pc = "fetch" /\ Head(tasks).ref = 2
    /\ Len(hist[1]) = 1 /\ ~hist[1][1].fetchOk /\ hist[1][1].sweep = sweep
    /\ pace.slept = SLEEP_MIN

\* C18 (as claimed): in check_watchlist_job, whenever a fetch is about to be
\* made after an earlier fetch of the same sweep, the job has waited since.
C18_AppPaced ==
    (prog = "app" /\ pc = "fetch" /\ FetchedThisSweep) => pace.slept > 0

\* The items a list of snapshots or tasks names.
Refs(list) == {list[n].ref : n \in DOMAIN list}

\* The step reads the task list of a sweep of pb_worker.main.
ReadsTasks == prog = "pb" /\ pc = "idle" /\ sweep' = sweep + 1

\* The step is the fetch of item i.
Fetches(i) == pc = "fetch" /\ Len(hist'[i]) = Len(hist[i]) + 1

\* The list the poller is working through, and the stored availability it
\* holds for the item at its head.
Remaining == IF prog = "app" THEN items ELSE tasks
HeadPrev ==
    IF prog = "app" THEN Get(Head(items).data, "inStock", FALSE)
    ELSE Contains(Head(tasks).prev_status, IN_STOCK)

Complete(e) ==
    /\ Detected(e) => e.wrote = "ok" /\ e.notified # "no"
    /\ (prog = "pb" /\ e.fetchOk) => e.wrote = "ok"

\* C20: within a sweep the items are processed one at a time, in the order of
\* the list that was read.  The list only ever loses its head; the item
\* fetched is the head of the list; no item is fetched twice in a sweep; and
\* when the next fetch is about to begin, the write and the notification of
\* every item fetched before it in the sweep are over.
C20_OneAtATimeInOrder ==
    /\ [](~keep => \A i \in ItemIds : Len(hist[i]) <= 1)
    /\ [](pc = "fetch" =>
            /\ \A p \in Entries : (E(p).sweep = sweep) => Complete(E(p))
            /\ \A n \in DOMAIN Remaining :
                   \A p \in Entries : (p[1] = Remaining[n].ref) => (E(p).sweep # sweep))
    /\ [][/\ \A i \in ItemIds : Fetches(i) => (Head(Remaining).ref = i)
          /\ (pc \in {"fetch", "update", "notify", "push", "sleep"}) =>
               \/ Remaining' = Remaining
               \/ Remaining' = Tail(Remaining)
               \/ outcome' = "raised" /\ Remaining' = <<>>]_vars

\* C20 witness: check_watchlist_job is about to fetch the second item of an
\* owner after the first was fetched, written and notified.
C20_Witness ==
    /\ prog = "app" /\ pc = "fetch" /\ Head(items).ref = 2 /\ hist[2] = <<>>
    /\ Len(hist[1]) = 1 /\ hist[1][1].sweep = sweep
    /\ hist[1][1].wrote = "ok" /\ hist[1][1].notified = "called"
    /\ 1 \in DOMAIN store /\ store[1].lastChecked = sweep

\* C21 (as claimed): a process that got past start-up holds a store client;
\* with a missing or invalid credential it never comes to serve requests or
\* to run the monitoring job.
C21_StartupFailureFatal ==
    pc \notin {"boot", "crashed"} => db = "client"

\* C23 (as claimed): when the process has been stopped, no item of the sweep
\* is left with its new state stored and its notification not attempted, or
\* with its notification sent and its new state not written.
C23_NoHalfCommitted ==
    pc = "stopped" =>
        \A p \in Entries :
            (E(p).sweep = sweep /\ Detected(E(p))) =>
                /\ E(p).wrote = "ok" => E(p).notified # "no"
                /\ E(p).notified = "called" => E(p).wrote # "no"

C22_EnrichmentFailsSoft ==
    (/\ result # None
     /\ result.fn = "get_stock_status_via_agent"
     /\ result.agent \in {"unreachable", "error", "no_message"})
        => result.value = ScrapePremiumBandai(html, URL)

\* The page holds the marker.
Has(t) == \E n \in DOMAIN html.body : html.body[n] = t

\* C24: for a page fetched with status 200, whichever of the markers are
\* missing, scrape_premium_bandai returns a snapshot: the sentinel title, the
\* sentinel price, inStock false and no image for exactly the missing
\* markers, the extracted values for the present ones; it returns None only
\* when the fetch raised or the status is not 200.
C24_FieldByFieldDegradation ==
    (result # None /\ result.fn = "scrape_premium_bandai") =>
        IF FetchSucceeded(html)
        THEN /\ result.app # None
             /\ result.app.title = (IF Has(TITLE) THEN "NAME" ELSE UNKNOWN_TITLE)
             /\ result.app.price = (IF Has(PRICE) THEN "9999yen" ELSE UNKNOWN_PRICE)
             /\ result.app.imageUrl = (IF Has(IMAGE) THEN "IMG" ELSE NoneStr)
             /\ result.app.inStock = (Has(STOCKM) /\ Has(PAIR_O))
             /\ result.app.statusText = (IF Has(STOCKM) /\ Has(PAIR_O)
                                          THEN IN_STOCK ELSE OUT_OF_STOCK)
             /\ result.app.url = URL
        ELSE result.app = None

\* C24 witness: only the price is on the page.
C24_Witness ==
    /\ result # None /\ result.fn = "scrape_premium_bandai"
    /\ FetchSucceeded(html) /\ html.body = <<PRICE>>
    /\ result.app.title = UNKNOWN_TITLE /\ result.app.price = "9999yen"
    /\ ~result.app.inStock /\ result.app.imageUrl = NoneStr

\* The step is one of the poller, not of the owners' side.
PollerStep ==
    <<pc, sweep, user_refs, items, tasks, hist, delivery, pace>>'
        # <<pc, sweep, user_refs, items, tasks, hist, delivery, pace>>

\* C25: no step of a sweep of check_watchlist_job or pb_worker.main creates
\* or deletes a watched item or moves it to another owner or URL: the items in
\* the store are those the registration endpoints added and the owners did
\* not delete.  An item deleted while the sweep holds it is not brought back
\* by the sweep's write.
C25_PipelineNeitherCreatesNorDeletes ==
    [][PollerStep =>
          /\ DOMAIN store' = DOMAIN store
          /\ \A i \in DOMAIN store :
                /\ store'[i].uid = store[i].uid
                /\ store'[i].url = store[i].url
                /\ store'[i].createdAt = store[i].createdAt]_vars

\* C25 witness: an item was deleted after the sweep had fetched it; the
\* sweep's write failed and the item stays deleted.
C25_Witness ==
    \E i \in ItemIds :
        /\ i < nextId /\ i \notin DOMAIN store
        /\ hist[i] # <<>> /\ hist[i][Len(hist[i])].sweep = sweep
        /\ hist[i][Len(hist[i])].wrote = "failed"

\* The stored status text of item i says "in stock".
StoredInStock(i) == Contains(Get(store[i], "lastStatus", <<>>), IN_STOCK)

BulkCreated(i) == "title" \in DOMAIN store[i]

\* C28: a watched item created by the CSV or bulk registration and changed
\* since by check_watchlist_job only has lastNotifiedStatus = inStock in every
\* state of the store, whatever the fetches, the store and the deliveries did.
C28_NotifiedTracksStock ==
    prog = "app" =>
        \A i \in DOMAIN store :
            BulkCreated(i) =>
                /\ {"inStock", "lastNotifiedStatus"} \subseteq DOMAIN store[i]
                /\ store[i].lastNotifiedStatus = store[i].inStock

\* C28 witness: a bulk-created item whose transition was written while the
\* delivery of its notification failed.
C28_Witness ==
    /\ prog = "app"
    /\ \E p \in Entries :
         /\ p[1] \in DOMAIN store /\ BulkCreated(p[1])
         /\ E(p).sweep = sweep /\ E(p).prev # E(p).cur
         /\ E(p).wrote = "ok" /\ E(p).sent = "api_error"
         /\ store[p[1]].inStock = E(p).cur

\* What scrape_premium_bandai returns for the test page as it is served now.
ScrapeOfTestItem ==
    ScrapePremiumBandai(
        Response(FALSE, HTTP_OK, TestItemPage(MOCK_ITEM_IN_STOCK)), TEST_URL)

\* The step is a successful fetch of item i.
FetchesOk(i) ==
    /\ Len(hist'[i]) = Len(hist[i]) + 1
    /\ hist'[i][Len(hist'[i])].fetchOk

\* The test item after n calls of the toggle endpoint is in stock exactly when
\* n is odd, and a scrape of its page returns the flag.
StubFaithful ==
    /\ [](MOCK_ITEM_IN_STOCK = (toggles % 2 = 1))
    /\ [](ScrapeOfTestItem \notin {None, Raised}
            /\ ScrapeOfTestItem.inStock = MOCK_ITEM_IN_STOCK)
    /\ [][\A i \in ItemIds :
             FetchesOk(i) => hist'[i][Len(hist'[i])].cur = MOCK_ITEM_IN_STOCK]_vars

Eligible(n) ==
    LET row == request.rows[n]
    IN  /\ row.type = "str" /\ TargetSite(row.url)
        /\ ScrapePremiumBandai(row.resp, row.url) # None

\* Every item in the store was added for an eligible row of its own.
AddedOnlyForEligible ==
    /\ Cardinality(DOMAIN store)
          <= Cardinality({n \in DOMAIN request.rows : Eligible(n)})
    /\ \A i \in DOMAIN store :
          \E n \in DOMAIN request.rows : Eligible(n) /\ store[i].url = request.rows[n].url

\* What the claim says of an answered request.
BoundedAndValidated ==
    /\ Len(request.rows) > MAX_BULK => request.status = 400 /\ store = <<>>
    /\ Len(request.rows) <= MAX_BULK =>
          /\ Cardinality(DOMAIN store) <= MAX_BULK
          /\ AddedOnlyForEligible
          /\ Cardinality(DOMAIN store) = request.success

\* C30 (as claimed): a CSV upload of more than 5 rows or a bulk request of
\* more than 5 URLs is rejected and adds nothing; any other request adds at
\* most 5 items, each for a URL that passes the target-site check and whose
\* scrape succeeded, and as many items as it reports as success.
C30_BulkBoundedAndValidated ==
    request.state = "answered" => BoundedAndValidated

\* The same for a request all of whose URLs can be read: it holds.
BulkBoundedWhenReadable ==
    (/\ request.state = "answered"
     /\ \A n \in DOMAIN request.rows : ~RowRaises(request.kind, request.rows[n]))
        => BoundedAndValidated

\* A request of five eligible rows registered five items.
FiveRegistered ==
    /\ request.state = "answered" /\ request.status = HTTP_OK
    /\ request.success = MAX_BULK /\ Cardinality(DOMAIN store) = MAX_BULK

\* What stands first inside the orderstock_list literal: the token that
\* follows the leftmost marker; "none" when the page has no marker or ends
\* with it.  An empty literal has CLOSE there.
FirstEntry(body) ==
    LET m == FirstIndex(body, 1, {STOCKM})
    IN  IF m = 0 \/ m = Len(body) THEN "none" ELSE body[m + 1]

\* The scraper that was called reports the page in stock.
ReportsInStock ==
    /\ result # None /\ FetchSucceeded(html)
    /\ IF result.fn = "scrape_premium_bandai"
       THEN result.app # None /\ result.app.inStock
       ELSE result.pb.is_stock

\* C31 (as claimed): scrape_premium_bandai and scrape_pb report in stock only
\* if the first entry inside the orderstock_list literal has the availability
\* glyph; with an empty literal, or a first entry of another value, nothing
\* that follows the literal on the page makes the result in stock.
C31_StockOnlyFromLiteral ==
    ReportsInStock => FirstEntry(html.body) = PAIR_O

\* The titles of a collection, and: no title is there twice.
TitlesOf(collection) == {collection[n].title : n \in DOMAIN collection}
OnePerTitle(collection) ==
    \A n, m \in DOMAIN collection :
        collection[n].title = collection[m].title => n = m

\* Run r is inside a call made when its title was in the monitoring collection.
LaterCall(r) == runs[r].pc # "idle" /\ runs[r].existed

\* C32: save_to_firestore is idempotent per title.  A call made when a
\* document of its title is in the monitoring collection changes neither
\* collection, whatever its report, and goes no further than the query;
\* after any sequence of calls made one after the other each collection holds
\* at most one document per title, and every document of the purchase list
\* has the judgment "high" and a title that is in the monitoring collection.
C32_IdempotentPerTitle ==
    /\ [][\A r \in DOMAIN runs :
             LaterCall(r) => UNCHANGED <<monitoring, purchase_list>>]_vars
    /\ [](\A r \in DOMAIN runs : LaterCall(r) => runs[r].pc = "query")
    /\ [](OnePerTitle(monitoring) /\ OnePerTitle(purchase_list))
    /\ [](\A n \in DOMAIN purchase_list :
             /\ Get(purchase_list[n].analysis, "judgment", "") = HIGH
             /\ purchase_list[n].title \in TitlesOf(monitoring))

\* C32 witness: a title was saved with a judgment other than "high"; a later
\* call with the same title and the judgment "high" is at its query, and has
\* returned in the next state; the purchase list stays empty.
C32_Witness ==
    /\ Len(monitoring) = 1 /\ purchase_list = <<>>
    /\ Get(monitoring[1].analysis, "judgment", "") # HIGH
    /\ LaterCall(1) /\ runs[1].title = monitoring[1].title
    /\ runs[1].report = [judgment |-> HIGH]

\* C33 (as claimed): with two runs calling save_to_firestore at the same
\* time, each collection still holds at most one document per title.
C33_UniqueUnderConcurrency ==
    OnePerTitle(monitoring) /\ OnePerTitle(purchase_list)

====
